---- MODULE Spec2Model ----
(***************************************************************************)
(* A model of transmit2 (src/transmit.c, src/main.c): the remote directory *)
(* materializer create_remote_directory_recursively, the uploader          *)
(* upload_file and the tree remover sftp_remove_path_recursive, run        *)
(* against a model of the remote SFTP file system.                         *)
(*                                                                         *)
(* A C string is a sequence of one-character strings (<<"a","/","b">> is   *)
(* "a/b").  A remote entry is addressed by the sequence of its component   *)
(* names below the remote root; the server resolves a path string to such  *)
(* an address, relative to its working directory unless the string starts  *)
(* with "/".                                                               *)
(***************************************************************************)
EXTENDS Integers, Sequences, FiniteSets, TLC

VARIABLES
    remote,   \* the remote file system: address -> [kind, data]
    cwd,      \* the address of the SFTP server's working directory
    ops,      \* the remote operations issued by the running top-level call
    pc,       \* the position of the program
    call,     \* the running top-level call and what is remembered of the previous one
    mk,       \* the frame of create_remote_directory_recursively
    up,       \* the frame of upload_file, with the local file system it reads
    rm,       \* the stack of frames of sftp_remove_path_recursive
    handles,  \* the file and listing handles that are open, and whether one was misused
    sess,     \* the socket, the SSH session and the SFTP session of main
    main      \* the frame of main: its input, its output and its return value

vars == <<remote, cwd, ops, pc, call, mk, up, rm, handles, sess, main>>

(***************************************************************************)
(* Bounds of the model.                                                    *)
(***************************************************************************)
MaxPathLen == 4     \* characters of a path given to create_directory
MaxEntries == 2     \* entries of the initial remote tree of create_directory
MaxDepth == 3       \* depth of the initial remote tree of create_directory
MemSize == 3        \* sizeof(mem), the transfer chunk of upload_file (1024 in the source)
UpPathLen == 3      \* characters of the remote path given to upload_file
UpEntries == 2      \* entries of the initial remote tree of upload_file
UpDepth == 2        \* depth of the initial remote tree of upload_file
RmPathLen == 2      \* characters of the path given to sftp_remove_path_recursive
RmEntries == 3      \* entries of the initial remote tree of sftp_remove_path_recursive
RmDepth == 3        \* depth of the initial remote tree of sftp_remove_path_recursive

Names == {"a", "b"}
Chars == Names \cup {"/"}

Min(x, y) == IF x < y THEN x ELSE y

RECURSIVE StringsUpTo(_)
StringsUpTo(n) ==
    IF n = 0 THEN {<<>>}
    ELSE LET S == StringsUpTo(n - 1)
         IN  S \cup {Append(s, c) : s \in {t \in S : Len(t) = n - 1}, c \in Chars}

(***************************************************************************)
(* String functions of the C library, as the code uses them.               *)
(***************************************************************************)
RECURSIVE Split(_, _, _)
Split(s, i, cur) ==
    IF i > Len(s) THEN (IF cur = <<>> THEN <<>> ELSE <<cur>>)
    ELSE IF s[i] = "/"
         THEN (IF cur = <<>> THEN Split(s, i + 1, <<>>)
                             ELSE <<cur>> \o Split(s, i + 1, <<>>))
         ELSE Split(s, i + 1, Append(cur, s[i]))

\* strtok(dir_path, "/") and its continuations: the tokens in order, runs of
\* "/" being one separator and leading and trailing "/" being dropped.
strtok(s) == Split(s, 1, <<>>)

\* strcat(current_path, "/") when current_path is not empty, then
\* strcat(current_path, dir_part)
strcat_part(current_path, dir_part) ==
    IF Len(current_path) > 0 THEN current_path \o <<"/">> \o dir_part
    ELSE dir_part

RECURSIVE StripSlashes(_)
StripSlashes(s) ==
    IF Len(s) > 0 /\ s[Len(s)] = "/" THEN StripSlashes(SubSeq(s, 1, Len(s) - 1))
    ELSE s

RECURSIVE StripName(_)
StripName(s) ==
    IF Len(s) > 0 /\ s[Len(s)] # "/" THEN StripName(SubSeq(s, 1, Len(s) - 1))
    ELSE s

\* dirname(3) of glibc.  u is the string up to the last "/" that is followed
\* by a name (up to the last "/" when the string holds no name).  When u is
\* slashes only the result is "/", and "//" when u is exactly two of them.
dirname(s) ==
    LET t == StripSlashes(s)
        u == IF t = <<>> THEN s ELSE StripName(t)
    IN  IF u = <<>> THEN <<".">>
        ELSE LET v == StripSlashes(u)
             IN  IF v # <<>> THEN v
                 ELSE IF Len(u) = 2 THEN <<"/", "/">> ELSE <<"/">>

(***************************************************************************)
(* The remote side: an SFTP server over a POSIX file system.               *)
(***************************************************************************)
Root == <<>>
Parent(p) == SubSeq(p, 1, Len(p) - 1)
IsPrefix(p, q) == Len(p) <= Len(q) /\ SubSeq(q, 1, Len(p)) = p

DirEntry == [kind |-> "dir", data |-> <<>>]
FileEntry(d) == [kind |-> "file", data |-> d]

KindIn(r, p) == IF p \in DOMAIN r THEN r[p].kind ELSE "none"
Kind(p) == KindIn(remote, p)

IsAbsolute(s) == Len(s) > 0 /\ s[1] = "/"

RECURSIVE DropDots(_)
DropDots(p) ==
    IF p = <<>> THEN <<>>
    ELSE IF Head(p) = <<".">> THEN DropDots(Tail(p))
         ELSE <<Head(p)>> \o DropDots(Tail(p))

\* The address a path string names on the server.
ResolveFrom(base, s) == (IF IsAbsolute(s) THEN Root ELSE base) \o DropDots(strtok(s))
Resolve(s) == ResolveFrom(cwd, s)

\* What libssh2_sftp_stat finds: "none" stands for rc != 0 (no such file, or a
\* component that is not a directory), "dir" and "file" for rc == 0 with the
\* type in attrs.permissions.
StatIn(r, base, s) ==
    LET p == ResolveFrom(base, s)
    IN  IF s = <<>> THEN "none"
        ELSE IF KindIn(r, p) = "file" /\ s[Len(s)] = "/" THEN "none"
        ELSE KindIn(r, p)

sftp_stat(s) == StatIn(remote, cwd, s)

\* What a call of libssh2_sftp_stat may return: what the server finds; or
\* rc != 0 because the server refuses the request, whatever the entry is; or,
\* for an entry that exists, rc == 0 with attrs.flags lacking
\* LIBSSH2_SFTP_ATTR_PERMISSIONS ("noperm"): the reply does not tell the type.
StatOutcomes(s) ==
    {sftp_stat(s), "none"} \cup (IF sftp_stat(s) # "none" THEN {"noperm"} ELSE {})

\* The entry path s names in tree r together with the entries below it.
NamedIn(r, base, s) ==
    IF StatIn(r, base, s) = "none" THEN {}
    ELSE {q \in DOMAIN r : IsPrefix(ResolveFrom(base, s), q)}

\* mkdir(2) on the server succeeds when the parent is a directory and the name is free.
CanMkdir(s) ==
    LET p == Resolve(s)
    IN  p # Root /\ Kind(p) = "none" /\ Kind(Parent(p)) = "dir"

Without(r, S) == [p \in DOMAIN r \ S |-> r[p]]

Op(name, s) == [op |-> name, path |-> s]

(***************************************************************************)
(* The initial remote trees: every tree of at most MaxEntries entries and  *)
(* depth at most MaxDepth with one-letter names, an entry being a          *)
(* directory or an empty file, below a root directory.                     *)
(***************************************************************************)
RECURSIVE AddrsUpTo(_)
AddrsUpTo(d) ==
    IF d = 0 THEN {Root}
    ELSE LET S == AddrsUpTo(d - 1)
         IN  S \cup {Append(p, <<n>>) : p \in {q \in S : Len(q) = d - 1}, n \in Names}

RECURSIVE TreesUpTo(_, _)
TreesUpTo(n, d) ==
    IF n = 0 THEN {(Root :> DirEntry)}
    ELSE LET T == TreesUpTo(n - 1, d)
         IN  T \cup UNION {{r @@ (p :> e) :
                               p \in {q \in AddrsUpTo(d) :
                                         q # Root /\ q \notin DOMAIN r
                                         /\ KindIn(r, Parent(q)) = "dir"},
                               e \in {DirEntry, FileEntry(<<>>)}} : r \in T}

InitRemotes == TreesUpTo(MaxEntries, MaxDepth)

\* The working directory of the server: the root or the directory /a.
InitCwds(r) == {Root} \cup {p \in {<< <<"a">> >>} : KindIn(r, p) = "dir"}

(***************************************************************************)
(* The frames at rest.                                                     *)
(***************************************************************************)
mkIdle ==
    [path |-> <<>>, rest |-> <<>>, current_path |-> <<>>, ret |-> 0]
upIdle ==
    [local_file |-> [kind |-> "none", data |-> <<>>], remote_file |-> <<>>,
     err_msg |-> "NULL", sftp_handle |-> "NULL", local |-> "NULL",
     fpos |-> 0, mem |-> <<>>, ptr |-> 0, remaining |-> 0, woff |-> 0, idle |-> 0,
     openErr |-> FALSE, readErr |-> FALSE, writeErr |-> FALSE]
rmIdle == <<>>

\* The handles: sftp_handle and local of upload_file, and dir of the call of
\* sftp_remove_path_recursive at depth n of the recursion.  handles.open holds
\* the handles that were opened and not closed since; handles.misuse tells
\* that a handle was read, written or closed while it was not open, or
\* opened again while it was.
hSftp == [handle |-> "sftp_handle", depth |-> 0]
hLocal == [handle |-> "local", depth |-> 0]
hDir(n) == [handle |-> "dir", depth |-> n]
noHandles == [open |-> {}, misuse |-> FALSE]
HOpen(hs, h) == [hs EXCEPT !.open = @ \cup {h}, !.misuse = @ \/ h \in hs.open]
HUse(hs, h) == [hs EXCEPT !.misuse = @ \/ h \notin hs.open]
HClose(hs, h) == [hs EXCEPT !.open = @ \ {h}, !.misuse = @ \/ h \notin hs.open]

\* main and the session before main has connected.
sessIdle ==
    [sock |-> "none", session |-> "NULL", sftp_session |-> "NULL",
     transport |-> "none", pending |-> FALSE, sendroom |-> FALSE, dir |-> {},
     log |-> <<>>]
\* An entry of sess.log: the function called and what it returned.
Called(fn, ret) == [fn |-> fn, ret |-> ret]
mainIdle == [auth |-> "none", rc |-> 0, ncmd |-> 0, out |-> <<>>, ret |-> 0]

\* A top-level call: the function, the number of the call, the remote tree
\* it starts on, its return value, and of the call before it the return
\* value and whether it changed the remote tree.
NewCall(fn, n, prevRet, prevChanged) ==
    [fn |-> fn, no |-> n, remote0 |-> remote, ret |-> 0,
     prevRet |-> prevRet, prevChanged |-> prevChanged]

(***************************************************************************)
(* create_remote_directory_recursively (src/transmit.c, 187-232).          *)
(***************************************************************************)
\* return: the frame keeps the value for the caller
MkReturn(v) ==
    /\ mk' = [mk EXCEPT !.ret = v]
    /\ pc' = "mk_ret"

\* 188-203: stat the whole path; rc == 0 with the permissions flag and a
\* directory is success at once.  Otherwise copy the path and start the
\* strtok loop with an empty current_path.
MkFirstStat ==
    /\ pc = "mk_first"
    /\ ops' = Append(ops, Op("stat", mk.path))
    /\ \E st \in StatOutcomes(mk.path) :
          IF st = "dir"
          THEN MkReturn(0)
          ELSE /\ mk' = [mk EXCEPT !.rest = strtok(mk.path), !.current_path = <<>>]
               /\ pc' = "mk_part"
    /\ UNCHANGED <<remote, cwd, call, up, rm, handles, sess, main>>

\* 231: the loop ran out of parts
MkLoopEnd ==
    /\ pc = "mk_part"
    /\ mk.rest = <<>>
    /\ MkReturn(0)
    /\ UNCHANGED <<remote, cwd, ops, call, up, rm, handles, sess, main>>

\* 205-220: the next part is appended to current_path, which is stat'ed;
\* rc == 0 with the permissions flag and an entry that is no directory is a
\* failure, rc != 0 goes on to mkdir, whatever made the stat fail, and every
\* other reply (a directory, or rc == 0 without the permissions flag) goes
\* on to the next part.
MkPart ==
    /\ pc = "mk_part"
    /\ mk.rest # <<>>
    /\ LET current_path == strcat_part(mk.current_path, Head(mk.rest))
       IN  /\ ops' = Append(ops, Op("stat", current_path))
           /\ \E st \in StatOutcomes(current_path) :
                 IF st = "file"
                 THEN /\ mk' = [mk EXCEPT !.current_path = current_path, !.ret = 1]
                      /\ pc' = "mk_ret"
                 ELSE IF st = "none"
                 THEN /\ mk' = [mk EXCEPT !.current_path = current_path]
                      /\ pc' = "mk_mkdir"
                 ELSE /\ mk' = [mk EXCEPT !.current_path = current_path,
                                          !.rest = Tail(mk.rest)]
                      /\ pc' = "mk_part"
    /\ UNCHANGED <<remote, cwd, call, up, rm, handles, sess, main>>

\* 222: libssh2_sftp_mkdir creates the directory
MkMkdirOk ==
    /\ pc = "mk_mkdir"
    /\ CanMkdir(mk.current_path)
    /\ ops' = Append(ops, Op("mkdir", mk.current_path))
    /\ remote' = remote @@ (Resolve(mk.current_path) :> DirEntry)
    /\ mk' = [mk EXCEPT !.rest = Tail(mk.rest)]
    /\ pc' = "mk_part"
    /\ UNCHANGED <<cwd, call, up, rm, handles, sess, main>>

\* 222-225: libssh2_sftp_mkdir fails (the server refuses it, whatever the tree)
MkMkdirFail ==
    /\ pc = "mk_mkdir"
    /\ ops' = Append(ops, Op("mkdir", mk.current_path))
    /\ MkReturn(1)
    /\ UNCHANGED <<remote, cwd, call, up, rm, handles, sess, main>>

MkStep == MkFirstStat \/ MkLoopEnd \/ MkPart \/ MkMkdirOk \/ MkMkdirFail

(***************************************************************************)
(* create_directory (src/transmit.c, 182-184) called twice on one path.    *)
(***************************************************************************)
MaxCalls == 2

InitDir ==
    /\ remote \in InitRemotes
    /\ cwd \in InitCwds(remote)
    /\ \E path \in StringsUpTo(MaxPathLen) \ {<<>>} :
          mk = [mkIdle EXCEPT !.path = path]
    /\ ops = <<>>
    /\ pc = "mk_first"
    /\ call = NewCall("create_directory", 1, 0, FALSE)
    /\ up = upIdle
    /\ rm = rmIdle
    /\ handles = noHandles
    /\ sess = sessIdle
    /\ main = mainIdle

\* 183: create_directory returns what create_remote_directory_recursively returned
DirReturn ==
    /\ pc = "mk_ret"
    /\ call.fn = "create_directory"
    /\ call' = [call EXCEPT !.ret = mk.ret]
    /\ pc' = "done"
    /\ UNCHANGED <<remote, cwd, ops, mk, up, rm, handles, sess, main>>

\* the caller calls create_directory again with the same path
DirAgain ==
    /\ pc = "done"
    /\ call.fn = "create_directory"
    /\ call.no < MaxCalls
    /\ call' = NewCall("create_directory", call.no + 1, call.ret, remote # call.remote0)
    /\ mk' = [mkIdle EXCEPT !.path = mk.path]
    /\ ops' = <<>>
    /\ pc' = "mk_first"
    /\ UNCHANGED <<remote, cwd, up, rm, handles, sess, main>>

NextDir == MkStep \/ DirReturn \/ DirAgain

SpecDir == InitDir /\ [][NextDir]_vars

(***************************************************************************)
(* upload_file (src/transmit.c, 112-179).                                  *)
(*                                                                         *)
(* up.local_file is what the local path denotes: a directory, a regular    *)
(* file with its bytes, or nothing that fopen can open.  up.sftp_handle    *)
(* and up.local are the two handles: "NULL", "open" or "closed".           *)
(* up.openErr, up.readErr and up.writeErr remember that libssh2_sftp_open, *)
(* fread or libssh2_sftp_write reported an error.                          *)
(***************************************************************************)
\* The bytes of the local files: 1, 2, ..., n, so that a byte tells its place.
LocalData(n) == [i \in 1..n |-> i]
LocalSizes == {0, 1, MemSize, MemSize + 1}

\* What a remote file may hold before the upload: less than a chunk, or more
\* than the largest local file.
PriorData == {<<0>>, [i \in 1..(MemSize + 2) |-> 0]}

\* open(2) with O_WRONLY|O_CREAT|O_TRUNC on the server
CanOpen(s) ==
    LET p == Resolve(s)
    IN  /\ s # <<>> /\ s[Len(s)] # "/"
        /\ p # Root /\ Kind(p) # "dir" /\ Kind(Parent(p)) = "dir"

\* pwrite(2) of bytes b at offset off of a file holding d
WriteAt(d, off, b) ==
    [i \in 1..(IF Len(d) > off + Len(b) THEN Len(d) ELSE off + Len(b)) |->
        IF i > off /\ i <= off + Len(b) THEN b[i - off] ELSE d[i]]

UpReturn(v) ==
    /\ pc' = "done"
    /\ call' = [call EXCEPT !.ret = v]

\* UpStart with the test of the local path left out: the directory is met
\* only by fopen, after the remote side was touched.
UpStart_NoDirectoryTest ==
    /\ pc = "up_start"
    /\ mk' = [mkIdle EXCEPT !.path = dirname(up.remote_file)]
    /\ pc' = "mk_first"
    /\ UNCHANGED <<remote, cwd, ops, call, up, rm, handles, sess, main>>

\* 113-130 up to the call: a local directory is refused; otherwise the parent
\* of the remote path is handed to create_remote_directory_recursively.
UpStart ==
    /\ pc = "up_start"
    /\ IF up.local_file.kind = "dir"
       THEN /\ up' = [up EXCEPT !.err_msg = "Uploading directories is not supported"]
            /\ UpReturn(1)
            /\ mk' = mk
       ELSE /\ mk' = [mkIdle EXCEPT !.path = dirname(up.remote_file)]
            /\ pc' = "mk_first"
            /\ UNCHANGED <<up, call>>
    /\ UNCHANGED <<remote, cwd, ops, rm, handles, sess, main>>

\* 127-130: the result of create_remote_directory_recursively
UpDirsMade ==
    /\ pc = "mk_ret"
    /\ call.fn = "upload_file"
    /\ IF mk.ret # 0
       THEN /\ up' = [up EXCEPT !.err_msg = "Failed to create remote directory recursively"]
            /\ UpReturn(1)
       ELSE /\ pc' = "up_open"
            /\ UNCHANGED <<up, call>>
    /\ UNCHANGED <<remote, cwd, ops, mk, rm, handles, sess, main>>

\* 133-138: libssh2_sftp_open creates the remote file or truncates it
UpOpenOk ==
    /\ pc = "up_open"
    /\ CanOpen(up.remote_file)
    /\ ops' = Append(ops, Op("open", up.remote_file))
    /\ remote' = [p \in DOMAIN remote \cup {Resolve(up.remote_file)} |->
                     IF p = Resolve(up.remote_file) THEN FileEntry(<<>>) ELSE remote[p]]
    /\ up' = [up EXCEPT !.sftp_handle = "open", !.woff = 0]
    /\ pc' = "up_fopen"
    /\ handles' = HOpen(handles, hSftp)
    /\ UNCHANGED <<cwd, call, mk, rm, sess, main>>

\* 140-144: libssh2_sftp_open returns NULL
UpOpenFail ==
    /\ pc = "up_open"
    /\ ops' = Append(ops, Op("open", up.remote_file))
    /\ up' = [up EXCEPT !.err_msg = "Unable to open remote file", !.openErr = TRUE]
    /\ UpReturn(1)
    /\ UNCHANGED <<remote, cwd, mk, rm, handles, sess, main>>

\* 146-151: fopen of the local file
UpFopen ==
    /\ pc = "up_fopen"
    /\ IF up.local_file.kind = "file"
       THEN /\ up' = [up EXCEPT !.local = "open", !.fpos = 0]
            /\ pc' = "up_read"
            /\ UNCHANGED <<call, ops>>
       ELSE /\ up' = [up EXCEPT !.err_msg = "Failed to open local file",
                                !.sftp_handle = "closed"]
            /\ ops' = Append(ops, Op("close", up.remote_file))
            /\ UpReturn(1)
    /\ handles' = IF up.local_file.kind = "file" THEN HOpen(handles, hLocal)
                                                ELSE HClose(handles, hSftp)
    /\ UNCHANGED <<remote, cwd, mk, rm, sess, main>>

\* 155: fread got nread bytes into mem; nread > 0 enters the write loop,
\* nread = 0 leaves the read loop
UpReadInto(nread) ==
    /\ up' = [up EXCEPT !.mem = SubSeq(up.local_file.data, up.fpos + 1, up.fpos + nread),
                        !.fpos = up.fpos + nread,
                        !.ptr = 0,
                        !.remaining = nread,
                        !.readErr = @ \/ nread < Min(MemSize, Len(up.local_file.data) - up.fpos)]
    /\ pc' = IF nread > 0 THEN "up_write" ELSE "up_close"

\* 155: fread fills mem with the next bytes of the file, sizeof(mem) at most
UpFread ==
    /\ pc = "up_read"
    /\ ~up.readErr
    /\ UpReadInto(Min(MemSize, Len(up.local_file.data) - up.fpos))
    /\ handles' = HUse(handles, hLocal)
    /\ UNCHANGED <<remote, cwd, ops, call, mk, rm, sess, main>>

\* 155: fread meets a read error: it returns fewer bytes than the file has
\* for this chunk, and 0 from then on
UpFreadError ==
    /\ pc = "up_read"
    /\ \E nread \in 0..(Min(MemSize, Len(up.local_file.data) - up.fpos) - 1) :
          /\ up.readErr => nread = 0
          /\ UpReadInto(nread)
    /\ handles' = HUse(handles, hLocal)
    /\ UNCHANGED <<remote, cwd, ops, call, mk, rm, sess, main>>

\* 159-169: libssh2_sftp_write accepts nwritten of the remaining bytes at ptr.
\* ops records the writes that moved bytes: a write of no byte leaves the
\* whole state as it was, and the loop calls libssh2_sftp_write again.
UpWrite ==
    /\ pc = "up_write"
    /\ \E nwritten \in 0..up.remaining :
          LET p == Resolve(up.remote_file)
              bytes == SubSeq(up.mem, up.ptr + 1, up.ptr + nwritten)
          IN  /\ remote' = [remote EXCEPT ![p].data = WriteAt(@, up.woff, bytes)]
              /\ up' = [up EXCEPT !.ptr = @ + nwritten,
                                  !.remaining = @ - nwritten,
                                  !.woff = @ + nwritten]
              /\ pc' = IF up.remaining - nwritten > 0 THEN "up_write" ELSE "up_read"
              /\ ops' = IF nwritten > 0 THEN Append(ops, Op("write", up.remote_file))
                                        ELSE ops
    /\ handles' = HUse(handles, hSftp)
    /\ UNCHANGED <<cwd, call, mk, rm, sess, main>>

\* UpWriteFail with a rollback: the remote file is unlinked after the failed
\* write.
UpWriteFail_Rollback ==
    /\ pc = "up_write"
    /\ ops' = ops \o <<Op("write", up.remote_file), Op("close", up.remote_file),
                       Op("unlink", up.remote_file)>>
    /\ remote' = Without(remote, {Resolve(up.remote_file)})
    /\ up' = [up EXCEPT !.err_msg = "SFTP write error", !.writeErr = TRUE,
                        !.local = "closed", !.sftp_handle = "closed"]
    /\ UpReturn(1)
    /\ handles' = HClose(HClose(HUse(handles, hSftp), hLocal), hSftp)
    /\ UNCHANGED <<cwd, mk, rm, sess, main>>

\* 161-166: libssh2_sftp_write returns a negative value: both handles are
\* closed, failure
UpWriteFail ==
    /\ pc = "up_write"
    /\ ops' = ops \o <<Op("write", up.remote_file), Op("close", up.remote_file)>>
    /\ up' = [up EXCEPT !.err_msg = "SFTP write error", !.writeErr = TRUE,
                        !.local = "closed", !.sftp_handle = "closed"]
    /\ UpReturn(1)
    /\ handles' = HClose(HClose(HUse(handles, hSftp), hLocal), hSftp)
    /\ UNCHANGED <<remote, cwd, mk, rm, sess, main>>

\* 172-178: the read loop is over: both handles are closed, success
UpClose ==
    /\ pc = "up_close"
    /\ ops' = Append(ops, Op("close", up.remote_file))
    /\ up' = [up EXCEPT !.local = "closed", !.sftp_handle = "closed", !.err_msg = "NULL"]
    /\ UpReturn(0)
    /\ handles' = HClose(HClose(handles, hLocal), hSftp)
    /\ UNCHANGED <<remote, cwd, mk, rm, sess, main>>

UpStep ==
    \/ UpStart \/ UpDirsMade \/ UpOpenOk \/ UpOpenFail \/ UpFopen
    \/ UpFread \/ UpFreadError \/ UpWrite \/ UpWriteFail \/ UpClose

\* The remote trees before an upload, every file of a tree holding data d.
UpInitRemotes ==
    {[p \in DOMAIN r |-> IF r[p].kind = "file" THEN FileEntry(d) ELSE r[p]] :
        r \in TreesUpTo(UpEntries, UpDepth), d \in PriorData}

LocalFiles ==
    {[kind |-> "file", data |-> LocalData(n)] : n \in LocalSizes}
    \cup {[kind |-> "dir", data |-> <<>>], [kind |-> "none", data |-> <<>>]}

InitUpload ==
    /\ remote \in UpInitRemotes
    /\ cwd \in InitCwds(remote)
    /\ \E lf \in LocalFiles, rf \in StringsUpTo(UpPathLen) \ {<<>>} :
          up = [upIdle EXCEPT !.local_file = lf, !.remote_file = rf]
    /\ ops = <<>>
    /\ pc = "up_start"
    /\ call = NewCall("upload_file", 1, 0, FALSE)
    /\ mk = mkIdle
    /\ rm = rmIdle
    /\ handles = noHandles
    /\ sess = sessIdle
    /\ main = mainIdle

NextUpload == UpStep \/ MkStep

SpecUpload == InitUpload /\ [][NextUpload]_vars

\* 159-169: libssh2_sftp_write accepts no byte (nwritten == 0): ptr and
\* remaining stay and the loop calls it again.  up.idle counts these calls,
\* modulo 2, so that each of them is a step of the run.
UpWriteIdle ==
    /\ pc = "up_write"
    /\ up' = [up EXCEPT !.idle = (@ + 1) % 2]
    /\ handles' = HUse(handles, hSftp)
    /\ UNCHANGED <<remote, cwd, ops, pc, call, mk, rm, sess, main>>

NextUploadFair == NextUpload \/ UpWriteIdle

\* upload_file runs on: as long as a step is possible, one is taken.  Every
\* step changes the position or a frame.
SpecUploadFair ==
    InitUpload /\ [][NextUploadFair]_vars /\ WF_<<pc, mk, up>>(NextUploadFair)

(***************************************************************************)
(* sftp_remove_path_recursive (src/transmit.c, 235-300).                   *)
(*                                                                         *)
(* rm is the stack of the recursion, the running call last.  A frame holds *)
(* path, the listing handle dir ("NULL", or the entries readdir has not    *)
(* returned yet and whether the handle is open), the entry and attrs of    *)
(* the last readdir, and the value the call returns.  call.err_msg is the  *)
(* message behind err_msg, shared by all levels.                           *)
(*                                                                         *)
(* With call.faults the server may refuse any single operation, whatever   *)
(* the tree; without it an operation fails only when the tree makes it     *)
(* fail (unlink of a directory, rmdir of a directory that is not empty).   *)
(* ops records the stat, unlink, opendir and rmdir requests with their     *)
(* outcome, and the readdir requests that failed.                          *)
(***************************************************************************)
RmOp(name, s, res) == [op |-> name, path |-> s, res |-> res]

Top == rm[Len(rm)]
SetTop(f) == [rm EXCEPT ![Len(rm)] = f]

RmFrame(path) ==
    [path |-> path, dir |-> "NULL", entry |-> <<>>, isdir |-> FALSE, ret |-> 0]

Children(r, p) == {q \in DOMAIN r : Len(q) = Len(p) + 1 /\ IsPrefix(p, q)}

\* unlink(2) on the server removes a non-directory
CanUnlink(s) == sftp_stat(s) = "file"

\* rmdir(2) on the server removes an empty directory
CanRmdir(s) ==
    LET p == Resolve(s)
    IN  p # Root /\ Kind(p) = "dir" /\ Children(remote, p) = {}

\* The entries a listing of directory s returns, each with the type it has
\* on the server: first "." and "..", then the children in any order.
DotEntries == <<[name |-> <<".">>, isdir |-> TRUE], [name |-> <<".", ".">>, isdir |-> TRUE]>>

Listing(s) ==
    LET p == Resolve(s)
    IN  [open |-> TRUE, dots |-> DotEntries,
         left |-> {[name |-> q[Len(q)], isdir |-> Kind(q) = "dir"] :
                      q \in Children(remote, p)}]

\* What LIBSSH2_SFTP_S_ISDIR(attrs.permissions) of line 277 may be for entry
\* e: the type of the entry, or FALSE when the reply of readdir carries no
\* permissions (attrs.flags, which the code does not test, lacks
\* LIBSSH2_SFTP_ATTR_PERMISSIONS and attrs.permissions is 0).
ReaddirIsDir(e) == {e.isdir, FALSE}

\* The entries the next readdir on listing d may return.
NextEntries(d) == IF d.dots # <<>> THEN {Head(d.dots)} ELSE d.left

\* The listing d after readdir returned e.
AfterEntry(d, e) ==
    IF d.dots # <<>> THEN [d EXCEPT !.dots = Tail(@)] ELSE [d EXCEPT !.left = @ \ {e}]

\* ChildPath without the path of the directory: the entry is named as
\* readdir returned it.
ChildPath_NoParent(path, entry) == entry

\* snprintf(buffer, sizeof(buffer), "%s/%s", path, entry)
ChildPath(path, entry) == path \o <<"/">> \o entry

\* return v from the running call
RmReturn(f, v) ==
    /\ rm' = SetTop([f EXCEPT !.ret = v])
    /\ pc' = "rm_ret"

\* 237: libssh2_sftp_stat finds the path
RmStatOk ==
    /\ pc = "rm_stat"
    /\ sftp_stat(Top.path) # "none"
    /\ ops' = Append(ops, RmOp("stat", Top.path, "ok"))
    /\ pc' = "rm_unlink"
    /\ UNCHANGED <<remote, cwd, call, mk, up, rm, handles, sess, main>>

\* RmStatNotFound without the test of LIBSSH2_FX_NO_SUCH_FILE: a missing path
\* is an error like any other failure of the stat.
RmStatNotFound_IsError ==
    /\ pc = "rm_stat"
    /\ sftp_stat(Top.path) = "none"
    /\ ops' = Append(ops, RmOp("stat", Top.path, "nosuchfile"))
    /\ call' = [call EXCEPT !.err_msg = "Failed to stat path"]
    /\ RmReturn(Top, -1)
    /\ UNCHANGED <<remote, cwd, mk, up, handles, sess, main>>

\* 237-240: the stat fails with LIBSSH2_FX_NO_SUCH_FILE: nothing to remove
RmStatNotFound ==
    /\ pc = "rm_stat"
    /\ sftp_stat(Top.path) = "none"
    /\ ops' = Append(ops, RmOp("stat", Top.path, "nosuchfile"))
    /\ RmReturn(Top, 0)
    /\ UNCHANGED <<remote, cwd, call, mk, up, handles, sess, main>>

\* 237-244: the stat fails with another error
RmStatError ==
    /\ pc = "rm_stat"
    /\ call.faults
    /\ ops' = Append(ops, RmOp("stat", Top.path, "error"))
    /\ call' = [call EXCEPT !.err_msg = "Failed to stat path"]
    /\ RmReturn(Top, -1)
    /\ UNCHANGED <<remote, cwd, mk, up, handles, sess, main>>

\* 248-250: the path is unlinked as a file
RmUnlinkOk ==
    /\ pc = "rm_unlink"
    /\ CanUnlink(Top.path)
    /\ ops' = Append(ops, RmOp("unlink", Top.path, "ok"))
    /\ remote' = Without(remote, {Resolve(Top.path)})
    /\ RmReturn(Top, 0)
    /\ UNCHANGED <<cwd, call, mk, up, handles, sess, main>>

\* 248: the unlink fails (a directory, or the server refuses)
RmUnlinkFail ==
    /\ pc = "rm_unlink"
    /\ ~CanUnlink(Top.path) \/ call.faults
    /\ ops' = Append(ops, RmOp("unlink", Top.path, "error"))
    /\ pc' = "rm_opendir"
    /\ UNCHANGED <<remote, cwd, call, mk, up, rm, handles, sess, main>>

\* 253: libssh2_sftp_opendir opens the listing
RmOpendirOk ==
    /\ pc = "rm_opendir"
    /\ sftp_stat(Top.path) = "dir"
    /\ ops' = Append(ops, RmOp("opendir", Top.path, "ok"))
    /\ rm' = SetTop([Top EXCEPT !.dir = Listing(Top.path)])
    /\ pc' = "rm_readdir"
    /\ handles' = HOpen(handles, hDir(Len(rm)))
    /\ UNCHANGED <<remote, cwd, call, mk, up, sess, main>>

\* 253-254: libssh2_sftp_opendir returns NULL
RmOpendirFail ==
    /\ pc = "rm_opendir"
    /\ sftp_stat(Top.path) # "dir" \/ call.faults
    /\ ops' = Append(ops, RmOp("opendir", Top.path, "error"))
    /\ pc' = "rm_rmdir_unlisted"
    /\ UNCHANGED <<remote, cwd, call, mk, up, rm, handles, sess, main>>

\* 256-258: the path that could not be listed is removed as an empty directory
RmRmdirUnlistedOk ==
    /\ pc = "rm_rmdir_unlisted"
    /\ CanRmdir(Top.path)
    /\ ops' = Append(ops, RmOp("rmdir", Top.path, "ok"))
    /\ remote' = Without(remote, {Resolve(Top.path)})
    /\ RmReturn(Top, 0)
    /\ UNCHANGED <<cwd, call, mk, up, handles, sess, main>>

\* 256-260: that rmdir fails as well
RmRmdirUnlistedFail ==
    /\ pc = "rm_rmdir_unlisted"
    /\ ~CanRmdir(Top.path) \/ call.faults
    /\ ops' = Append(ops, RmOp("rmdir", Top.path, "error"))
    /\ call' = [call EXCEPT !.err_msg = "Failed to open or remove path"]
    /\ RmReturn(Top, -1)
    /\ UNCHANGED <<remote, cwd, mk, up, handles, sess, main>>

\* 268-277: libssh2_sftp_readdir returns an entry, in any order, with or
\* without its permissions; "." and ".." are skipped before line 277 looks
\* at the permissions, another entry goes on to its removal.  Top.isdir is
\* the outcome of the test of line 277 for the last entry it was made for.
RmReaddirEntry ==
    /\ pc = "rm_readdir"
    /\ \E e \in NextEntries(Top.dir) : \E isdir \in ReaddirIsDir(e) :
          IF e.name = <<".">> \/ e.name = <<".", ".">>
          THEN /\ rm' = SetTop([Top EXCEPT !.dir = AfterEntry(@, e), !.entry = e.name])
               /\ pc' = "rm_readdir"
          ELSE /\ rm' = SetTop([Top EXCEPT !.dir = AfterEntry(@, e),
                                           !.entry = e.name, !.isdir = isdir])
               /\ pc' = "rm_child"
    /\ handles' = HUse(handles, hDir(Len(rm)))
    /\ UNCHANGED <<remote, cwd, ops, call, mk, up, sess, main>>

\* 268-269, 291: libssh2_sftp_readdir returns 0 at the end of the listing;
\* the loop is left and the listing closed
RmReaddirEnd ==
    /\ pc = "rm_readdir"
    /\ NextEntries(Top.dir) = {}
    /\ rm' = SetTop([Top EXCEPT !.dir.open = FALSE])
    /\ pc' = "rm_rmdir"
    /\ handles' = HClose(HUse(handles, hDir(Len(rm))), hDir(Len(rm)))
    /\ UNCHANGED <<remote, cwd, ops, call, mk, up, sess, main>>

\* 268-269, 291: libssh2_sftp_readdir returns a negative value: the loop is
\* left the same way
RmReaddirError ==
    /\ pc = "rm_readdir"
    /\ call.faults
    /\ ops' = Append(ops, RmOp("readdir", Top.path, "error"))
    /\ rm' = SetTop([Top EXCEPT !.dir.open = FALSE])
    /\ pc' = "rm_rmdir"
    /\ handles' = HClose(HUse(handles, hDir(Len(rm))), hDir(Len(rm)))
    /\ UNCHANGED <<remote, cwd, call, mk, up, sess, main>>

\* 277-278: the entry is a directory by its attrs: the function calls itself
RmChildRecurse ==
    /\ pc = "rm_child"
    /\ Top.isdir
    /\ rm' = Append(rm, RmFrame(ChildPath(Top.path, Top.entry)))
    /\ pc' = "rm_stat"
    /\ UNCHANGED <<remote, cwd, ops, call, mk, up, handles, sess, main>>

\* RmChildReturned without the closedir of line 279: the failure of the call
\* on the child directory is returned with the listing left open.
RmChildReturned_NoClosedir ==
    /\ pc = "rm_ret"
    /\ Len(rm) > 1
    /\ LET f == rm[Len(rm) - 1]
           below == SubSeq(rm, 1, Len(rm) - 2)
       IN  IF Top.ret # 0
           THEN /\ rm' = Append(below, [f EXCEPT !.ret = -1])
                /\ pc' = "rm_ret"
                /\ call' = IF call.failed THEN call
                           ELSE [call EXCEPT !.failed = TRUE, !.failPath = Top.path,
                                             !.failRemote = remote,
                                             !.failOps = Len(ops)]
           ELSE /\ rm' = Append(below, f)
                /\ pc' = "rm_readdir"
                /\ call' = call
    /\ UNCHANGED <<remote, cwd, ops, mk, up, handles, sess, main>>

\* 278-281: the call on the child directory has returned: failure closes the
\* listing and is returned, success goes on with the listing
RmChildReturned ==
    /\ pc = "rm_ret"
    /\ Len(rm) > 1
    /\ LET f == rm[Len(rm) - 1]
           below == SubSeq(rm, 1, Len(rm) - 2)
       IN  IF Top.ret # 0
           THEN /\ rm' = Append(below, [f EXCEPT !.dir.open = FALSE, !.ret = -1])
                /\ pc' = "rm_ret"
                /\ call' = IF call.failed THEN call
                           ELSE [call EXCEPT !.failed = TRUE, !.failPath = Top.path,
                                             !.failRemote = remote,
                                             !.failOps = Len(ops)]
           ELSE /\ rm' = Append(below, f)
                /\ pc' = "rm_readdir"
                /\ call' = call
    /\ handles' = IF Top.ret # 0 THEN HClose(handles, hDir(Len(rm) - 1)) ELSE handles
    /\ UNCHANGED <<remote, cwd, ops, mk, up, sess, main>>

\* 283: the entry is no directory by its attrs and is unlinked
RmChildUnlinkOk ==
    /\ pc = "rm_child"
    /\ ~Top.isdir
    /\ CanUnlink(ChildPath(Top.path, Top.entry))
    /\ ops' = Append(ops, RmOp("unlink", ChildPath(Top.path, Top.entry), "ok"))
    /\ remote' = Without(remote, {Resolve(ChildPath(Top.path, Top.entry))})
    /\ pc' = "rm_readdir"
    /\ UNCHANGED <<cwd, call, mk, up, rm, handles, sess, main>>

\* RmChildUnlinkFail without the return: the failure is noted and the loop
\* goes on with the next entry.
RmChildUnlinkFail_Continue ==
    /\ pc = "rm_child"
    /\ ~Top.isdir
    /\ ~CanUnlink(ChildPath(Top.path, Top.entry)) \/ call.faults
    /\ ops' = Append(ops, RmOp("unlink", ChildPath(Top.path, Top.entry), "error"))
    /\ call' = [call EXCEPT !.err_msg = "Failed to delete file", !.failed = TRUE,
                            !.failPath = ChildPath(Top.path, Top.entry),
                            !.failRemote = remote, !.failOps = Len(ops) + 1]
    /\ pc' = "rm_readdir"
    /\ UNCHANGED <<remote, cwd, mk, up, rm, handles, sess, main>>

\* 283-287: the unlink of the entry fails: the listing is closed and the
\* call returns -1
RmChildUnlinkFail ==
    /\ pc = "rm_child"
    /\ ~Top.isdir
    /\ ~CanUnlink(ChildPath(Top.path, Top.entry)) \/ call.faults
    /\ ops' = Append(ops, RmOp("unlink", ChildPath(Top.path, Top.entry), "error"))
    /\ call' = [call EXCEPT !.err_msg = "Failed to delete file", !.failed = TRUE,
                            !.failPath = ChildPath(Top.path, Top.entry),
                            !.failRemote = remote, !.failOps = Len(ops) + 1]
    /\ RmReturn([Top EXCEPT !.dir.open = FALSE], -1)
    /\ handles' = HClose(handles, hDir(Len(rm)))
    /\ UNCHANGED <<remote, cwd, mk, up, sess, main>>

\* 294, 299: the emptied directory is removed
RmRmdirOk ==
    /\ pc = "rm_rmdir"
    /\ CanRmdir(Top.path)
    /\ ops' = Append(ops, RmOp("rmdir", Top.path, "ok"))
    /\ remote' = Without(remote, {Resolve(Top.path)})
    /\ RmReturn(Top, 0)
    /\ UNCHANGED <<cwd, call, mk, up, handles, sess, main>>

\* RmRmdirFail with the result of the rmdir ignored: the call returns 0.
RmRmdirFail_Ignored ==
    /\ pc = "rm_rmdir"
    /\ ~CanRmdir(Top.path) \/ call.faults
    /\ ops' = Append(ops, RmOp("rmdir", Top.path, "error"))
    /\ RmReturn(Top, 0)
    /\ UNCHANGED <<remote, cwd, call, mk, up, handles, sess, main>>

\* 294-297: the rmdir fails (the directory is not empty, or the server refuses)
RmRmdirFail ==
    /\ pc = "rm_rmdir"
    /\ ~CanRmdir(Top.path) \/ call.faults
    /\ ops' = Append(ops, RmOp("rmdir", Top.path, "error"))
    /\ call' = [call EXCEPT !.err_msg = "Failed to remove directory"]
    /\ RmReturn(Top, -1)
    /\ UNCHANGED <<remote, cwd, mk, up, handles, sess, main>>

\* the outermost call returns to its caller
RmReturnTop ==
    /\ pc = "rm_ret"
    /\ Len(rm) = 1
    /\ call' = [call EXCEPT !.ret = Top.ret]
    /\ rm' = <<>>
    /\ pc' = "done"
    /\ UNCHANGED <<remote, cwd, ops, mk, up, handles, sess, main>>

RmStep ==
    \/ RmStatOk \/ RmStatNotFound \/ RmStatError
    \/ RmUnlinkOk \/ RmUnlinkFail
    \/ RmOpendirOk \/ RmOpendirFail
    \/ RmRmdirUnlistedOk \/ RmRmdirUnlistedFail
    \/ RmReaddirEntry \/ RmReaddirEnd \/ RmReaddirError
    \/ RmChildRecurse \/ RmChildReturned
    \/ RmChildUnlinkOk \/ RmChildUnlinkFail
    \/ RmRmdirOk \/ RmRmdirFail
    \/ RmReturnTop

\* A call of sftp_remove_path_recursive(path) by main (src/main.c, 108-110),
\* err_msg = NULL.  failed, failPath, failRemote and failOps remember the
\* first failed removal of a directory entry: the entry, and the tree and the
\* length of ops at that time.
NewRmCall(path, n, faults, prevRet, prevChanged) ==
    [fn |-> "sftp_remove_path_recursive", no |-> n, path |-> path,
     faults |-> faults, remote0 |-> remote, ret |-> 0, err_msg |-> "NULL",
     failed |-> FALSE, failPath |-> <<>>, failRemote |-> remote, failOps |-> 0,
     prevRet |-> prevRet, prevChanged |-> prevChanged]

\* The first call: any tree, the working directory of the server its root,
\* any path; the server may refuse any operation of the call, or none.
InitRemove ==
    /\ remote \in TreesUpTo(RmEntries, RmDepth)
    /\ cwd = Root
    /\ \E path \in StringsUpTo(RmPathLen) \ {<<>>} :
          /\ call = NewRmCall(path, 1, TRUE, 0, FALSE)
          /\ rm = <<RmFrame(path)>>
    /\ ops = <<>>
    /\ pc = "rm_stat"
    /\ mk = mkIdle
    /\ up = upIdle
    /\ handles = noHandles
    /\ sess = sessIdle
    /\ main = mainIdle

\* main calls sftp_remove_path_recursive again with the same path, the server
\* now refusing nothing
RmAgain ==
    /\ pc = "done"
    /\ call.fn = "sftp_remove_path_recursive"
    /\ call.no < MaxCalls
    /\ call' = NewRmCall(call.path, call.no + 1, FALSE, call.ret, remote # call.remote0)
    /\ rm' = <<RmFrame(call.path)>>
    /\ ops' = <<>>
    /\ pc' = "rm_stat"
    /\ UNCHANGED <<remote, cwd, mk, up, handles, sess, main>>

NextRemove == RmStep \/ RmAgain

SpecRemove == InitRemove /\ [][NextRemove]_vars

(***************************************************************************)
(* is_session_alive (src/transmit.c, 73-91).                               *)
(*                                                                         *)
(* sess.sock is "open", or "closed" for a descriptor that is no longer     *)
(* valid; sess.transport is "open", "closed" once the peer has closed the  *)
(* connection, or "reset" once the connection has met an error;            *)
(* sess.pending tells that received bytes wait in the socket,              *)
(* sess.sendroom that its send buffer has room, and sess.dir holds the     *)
(* directions libssh2_session_block_directions reports.  sess.log holds    *)
(* the protocol calls made on the session before the probe.                *)
(***************************************************************************)
\* select(2) with a zero timeout on the one descriptor: the socket is
\* readable when bytes, the end of the stream or an error wait, writable when
\* the send buffer has room or an error waits
Readable == sess.pending \/ sess.transport \in {"closed", "reset"}
Writable == sess.sendroom \/ sess.transport = "reset"
Ready(b) == IF b THEN 1 ELSE 0

\* the value of select: -1 for a descriptor that is not valid (EBADF),
\* otherwise the number of descriptors ready in the sets passed
select(readfds, writefds) ==
    IF sess.sock # "open" THEN -1
    ELSE Ready(readfds /\ Readable) + Ready(writefds /\ Writable)

\* 79: libssh2_session_block_directions
AliveDirections ==
    /\ pc = "alive_start"
    /\ call' = [call EXCEPT !.dir = sess.dir]
    /\ pc' = "alive_select"
    /\ UNCHANGED <<remote, cwd, ops, mk, up, rm, handles, sess, main>>

\* 82-83: blocked inbound: the descriptor is polled for reading
AliveSelectInbound ==
    /\ pc = "alive_select"
    /\ "INBOUND" \in call.dir
    /\ call' = [call EXCEPT !.rc = select(TRUE, FALSE)]
    /\ pc' = "alive_ret"
    /\ UNCHANGED <<remote, cwd, ops, mk, up, rm, handles, sess, main>>

\* 84-85: blocked outbound only: the descriptor is polled for writing
AliveSelectOutbound ==
    /\ pc = "alive_select"
    /\ "INBOUND" \notin call.dir /\ "OUTBOUND" \in call.dir
    /\ call' = [call EXCEPT !.rc = select(FALSE, TRUE)]
    /\ pc' = "alive_ret"
    /\ UNCHANGED <<remote, cwd, ops, mk, up, rm, handles, sess, main>>

\* 86-88: blocked in no direction: the descriptor is polled for both
AliveSelectBoth ==
    /\ pc = "alive_select"
    /\ call.dir = {}
    /\ call' = [call EXCEPT !.rc = select(TRUE, TRUE)]
    /\ pc' = "alive_ret"
    /\ UNCHANGED <<remote, cwd, ops, mk, up, rm, handles, sess, main>>

\* 90: return rc != 0
AliveReturn ==
    /\ pc = "alive_ret"
    /\ call' = [call EXCEPT !.ret = IF call.rc # 0 THEN 1 ELSE 0]
    /\ pc' = "done"
    /\ UNCHANGED <<remote, cwd, ops, mk, up, rm, handles, sess, main>>

AliveStep ==
    \/ AliveDirections \/ AliveSelectInbound \/ AliveSelectOutbound
    \/ AliveSelectBoth \/ AliveReturn

\* The sessions the probe is called on: connected by init_sftp_session, then
\* in any state of the connection, with or without a protocol call made.
InitAlive ==
    /\ \E sock \in {"open", "closed"}, transport \in {"open", "closed", "reset"},
          pending \in BOOLEAN, sendroom \in BOOLEAN,
          dir \in SUBSET {"INBOUND", "OUTBOUND"},
          log \in {<<>>, <<Called("libssh2_sftp_stat", "called")>>} :
          sess = [sessIdle EXCEPT !.sock = sock, !.transport = transport,
                                  !.session = "authenticated", !.sftp_session = "ready",
                                  !.pending = pending, !.sendroom = sendroom,
                                  !.dir = dir, !.log = log]
    /\ call = [fn |-> "is_session_alive", dir |-> {}, rc |-> 0, ret |-> 0]
    /\ pc = "alive_start"
    /\ remote = (Root :> DirEntry)
    /\ cwd = Root
    /\ ops = <<>>
    /\ mk = mkIdle
    /\ up = upIdle
    /\ rm = rmIdle
    /\ handles = noHandles
    /\ main = mainIdle

NextAlive == AliveStep

SpecAlive == InitAlive /\ [][NextAlive]_vars

(***************************************************************************)
(* main (src/main.c), with init_sftp_session and close_sftp_session        *)
(* (src/transmit.c, 22-71 and 94-100).                                     *)
(*                                                                         *)
(* sess.sock is the descriptor ("none" before socket(), then "open" or     *)
(* "closed"), sess.session the LIBSSH2_SESSION ("NULL", "init",            *)
(* "handshaken", "authenticated", "disconnected", "freed"),                *)
(* sess.sftp_session the LIBSSH2_SFTP ("NULL", "ready", "shutdown"),       *)
(* sess.transport the TCP connection ("none", "open", "closed" once the    *)
(* peer has closed it) and sess.log the calls made on the three, in order. *)
(* main.out holds the lines main has printed (the prompts, which end in no *)
(* newline, are no lines), main.auth the authentication                    *)
(* method read, main.rc what the connect function returned, main.ncmd the  *)
(* number of command lines read and main.ret the exit status.  pc is       *)
(* "exit" when main has returned and "killed" when the process was ended   *)
(* by a signal.                                                            *)
(***************************************************************************)
MaxCmds == 2        \* command lines main reads before its input ends

Log(fn, ret) == [sess EXCEPT !.log = Append(@, Called(fn, ret))]
Said(status, message) ==
    [main EXCEPT !.out = Append(@, [status |-> status, message |-> message])]
\* A line printed without the "0|" or "1|" in front: its status is -1.
Debug(message) == Said(-1, "DEBUG: " \o message)

\* src/main.c 18-52, 63-69: the prompts; a fgets that fails ends main with 1,
\* otherwise the method read decides the connect function.  Before it calls
\* init_sftp_session_password main prints a line that is no status line.
MainPrompt ==
    /\ pc = "main_start"
    /\ \/ \E what \in {"hostname", "username", "auth method", "password",
                       "private key path"} :
             /\ main' = [Said(0, "Failed to read " \o what) EXCEPT !.ret = 1]
             /\ pc' = "exit"
       \/ /\ main' = [main EXCEPT !.auth = "key"]
          /\ pc' = "init_libssh2"
       \/ /\ main' = [Debug("Attempting password authentication...")
                         EXCEPT !.auth = "password"]
          /\ pc' = "init_password"
    /\ UNCHANGED <<remote, cwd, ops, call, mk, up, rm, handles, sess>>

\* return v from init_sftp_session
InitReturn(v) ==
    /\ main' = [main EXCEPT !.rc = v]
    /\ pc' = "main_connected"

\* 27-31: libssh2_init
InitLibssh2 ==
    /\ pc = "init_libssh2"
    /\ \/ /\ sess' = Log("libssh2_init", "fail")
          /\ InitReturn(-1)
       \/ /\ sess' = Log("libssh2_init", "ok")
          /\ pc' = "init_socket" /\ main' = main
    /\ UNCHANGED <<remote, cwd, ops, call, mk, up, rm, handles>>

\* 34-38: socket() gives the descriptor, or fails
InitSocket ==
    /\ pc = "init_socket"
    /\ \/ /\ sess' = Log("socket", "fail")
          /\ InitReturn(-1)
       \/ /\ sess' = [Log("socket", "ok") EXCEPT !.sock = "open"]
          /\ pc' = "init_connect" /\ main' = main
    /\ UNCHANGED <<remote, cwd, ops, call, mk, up, rm, handles>>

\* 40-47: connect()
InitConnect ==
    /\ pc = "init_connect"
    /\ \/ /\ sess' = Log("connect", "fail")
          /\ InitReturn(-1)
       \/ /\ sess' = [Log("connect", "ok") EXCEPT !.transport = "open"]
          /\ pc' = "init_session" /\ main' = main
    /\ UNCHANGED <<remote, cwd, ops, call, mk, up, rm, handles>>

\* 50: libssh2_session_init gives the session object, or NULL when its
\* allocation fails; what it returned is stored and not tested
InitSessionInit ==
    /\ pc = "init_session"
    /\ \/ sess' = Log("libssh2_session_init", "NULL")
       \/ sess' = [Log("libssh2_session_init", "ok") EXCEPT !.session = "init"]
    /\ pc' = "init_handshake"
    /\ UNCHANGED <<remote, cwd, ops, call, mk, up, rm, handles, main>>

\* 51-54: libssh2_session_handshake.  Called with the session NULL it reads
\* through the null pointer and the process is killed by a signal: no line
\* is printed, nothing is returned and main has no exit status.
InitHandshake ==
    /\ pc = "init_handshake"
    /\ \/ /\ sess.session = "NULL"
          /\ sess' = Log("libssh2_session_handshake", "killed")
          /\ pc' = "killed" /\ main' = main
       \/ /\ sess.session # "NULL"
          /\ sess' = Log("libssh2_session_handshake", "fail")
          /\ InitReturn(-1)
       \/ /\ sess.session # "NULL"
          /\ sess' = [Log("libssh2_session_handshake", "ok") EXCEPT !.session = "handshaken"]
          /\ pc' = "init_auth" /\ main' = main
    /\ UNCHANGED <<remote, cwd, ops, call, mk, up, rm, handles>>

\* 57-61: libssh2_userauth_publickey_fromfile
InitAuth ==
    /\ pc = "init_auth"
    /\ \/ /\ sess' = Log("libssh2_userauth_publickey_fromfile", "fail")
          /\ InitReturn(-1)
       \/ /\ sess' = [Log("libssh2_userauth_publickey_fromfile", "ok")
                         EXCEPT !.session = "authenticated"]
          /\ pc' = "init_sftp" /\ main' = main
    /\ UNCHANGED <<remote, cwd, ops, call, mk, up, rm, handles>>

\* 64-70: libssh2_sftp_init
InitSftp ==
    /\ pc = "init_sftp"
    /\ \/ /\ sess' = Log("libssh2_sftp_init", "fail")
          /\ InitReturn(-1)
       \/ /\ sess' = [Log("libssh2_sftp_init", "ok") EXCEPT !.sftp_session = "ready"]
          /\ InitReturn(0)
    /\ UNCHANGED <<remote, cwd, ops, call, mk, up, rm, handles>>

InitStep ==
    \/ InitLibssh2 \/ InitSocket \/ InitConnect \/ InitSessionInit
    \/ InitHandshake \/ InitAuth \/ InitSftp

\* init_sftp_session_password (declared in src/transmit.h, 14-15): connect of
\* the specification, section 4.1: the session is ready, or a stage failed
\* and nothing acquired is kept
init_sftp_session_password ==
    /\ pc = "init_password"
    /\ \/ /\ sess' = [Log("init_sftp_session_password", "ok") EXCEPT
                         !.sock = "open", !.transport = "open",
                         !.session = "authenticated", !.sftp_session = "ready"]
          /\ InitReturn(0)
       \/ /\ sess' = Log("init_sftp_session_password", "fail")
          /\ InitReturn(-1)
    /\ UNCHANGED <<remote, cwd, ops, call, mk, up, rm, handles>>

\* src/main.c 54-61, 71-77: a failed connect ends main with 1; after a
\* connect with a password a second line that is no status line is printed
MainConnected ==
    /\ pc = "main_connected"
    /\ IF main.rc # 0
       THEN /\ main' = [Said(0, "Failed to establish SFTP session with " \o main.auth)
                           EXCEPT !.ret = 1]
            /\ pc' = "exit"
       ELSE /\ main' = [(IF main.auth = "password"
                           THEN Debug("Password authentication succeeded")
                           ELSE main)
                          EXCEPT !.out = Append(@, [status |-> 1, message |-> "Connected"])]
            /\ pc' = "main_probe"
    /\ UNCHANGED <<remote, cwd, ops, call, mk, up, rm, handles, sess>>

\* The peer closes the connection, between two commands.
TransportClosed ==
    /\ pc = "main_probe"
    /\ sess.transport = "open"
    /\ sess' = [sess EXCEPT !.transport = "closed"]
    /\ UNCHANGED <<remote, cwd, ops, pc, call, mk, up, rm, handles, main>>

\* is_sftp_session_alive (declared in src/transmit.h, 12): isAlive of the
\* specification, section 4.1: false for a closed transport, true otherwise
is_sftp_session_alive == sess.transport # "closed"

\* MainProbe with the answer of the probe ignored.
MainProbe_Ignored ==
    /\ pc = "main_probe"
    /\ sess' = Log("is_sftp_session_alive", IF is_sftp_session_alive THEN "true" ELSE "false")
    /\ pc' = "main_read"
    /\ UNCHANGED <<remote, cwd, ops, call, mk, up, rm, handles, main>>

\* src/main.c 80-83: the probe at the head of the loop
MainProbe ==
    /\ pc = "main_probe"
    /\ sess' = Log("is_sftp_session_alive", IF is_sftp_session_alive THEN "true" ELSE "false")
    /\ IF is_sftp_session_alive
       THEN /\ pc' = "main_read"
            /\ main' = main
       ELSE /\ main' = Said(0, "SFTP session lost")
            /\ pc' = "close_shutdown"
    /\ UNCHANGED <<remote, cwd, ops, call, mk, up, rm, handles>>

\* The paths of the command lines, and the remote trees main starts on: the
\* empty root, and a directory a holding a file and an empty directory.
MainPaths == {<<"a">>, <<"b", "/", "a">>}
MainRemotes ==
    {(Root :> DirEntry),
     (Root :> DirEntry) @@ (<< <<"a">> >> :> DirEntry)
        @@ (<< <<"a">>, <<"a">> >> :> FileEntry(<<0>>))
        @@ (<< <<"a">>, <<"b">> >> :> DirEntry)}
MainLocalFiles ==
    {[kind |-> "file", data |-> LocalData(1)],
     [kind |-> "dir", data |-> <<>>], [kind |-> "none", data |-> <<>>]}

\* src/main.c 85-91: fgets meets the end of the input
MainReadEof ==
    /\ pc = "main_read"
    /\ main' = Said(0, "Failed to read input")
    /\ pc' = "close_shutdown"
    /\ UNCHANGED <<remote, cwd, ops, call, mk, up, rm, handles, sess>>

\* src/main.c 93-99: the command is exit
MainReadExit ==
    /\ pc = "main_read"
    /\ main' = Said(1, "Exiting shell")
    /\ pc' = "close_shutdown"
    /\ UNCHANGED <<remote, cwd, ops, call, mk, up, rm, handles, sess>>

\* src/main.c 100-102: upload <local> <remote>
MainReadUpload ==
    /\ pc = "main_read"
    /\ main.ncmd < MaxCmds
    /\ \E lf \in MainLocalFiles, rf \in MainPaths :
          up' = [upIdle EXCEPT !.local_file = lf, !.remote_file = rf]
    /\ call' = NewCall("upload_file", main.ncmd + 1, 0, FALSE)
    /\ main' = [main EXCEPT !.ncmd = @ + 1]
    /\ sess' = Log("upload_file", "called")
    /\ ops' = <<>>
    /\ pc' = "up_start"
    /\ UNCHANGED <<remote, cwd, mk, rm, handles>>

\* src/main.c 108-110: remove <remote>
MainReadRemove ==
    /\ pc = "main_read"
    /\ main.ncmd < MaxCmds
    /\ \E path \in MainPaths, faults \in BOOLEAN :
          /\ call' = NewRmCall(path, main.ncmd + 1, faults, 0, FALSE)
          /\ rm' = <<RmFrame(path)>>
    /\ main' = [main EXCEPT !.ncmd = @ + 1]
    /\ sess' = Log("sftp_remove_path_recursive", "called")
    /\ ops' = <<>>
    /\ pc' = "rm_stat"
    /\ UNCHANGED <<remote, cwd, mk, up, handles>>

\* src/main.c 116-118: any other line
MainReadUnknown ==
    /\ pc = "main_read"
    /\ main.ncmd < MaxCmds
    /\ main' = [Said(0, "Unknown command or incorrect usage") EXCEPT !.ncmd = @ + 1]
    /\ pc' = "main_probe"
    /\ UNCHANGED <<remote, cwd, ops, call, mk, up, rm, handles, sess>>

\* src/main.c 102-107, 110-115: the outcome of the command is printed
MainResult ==
    /\ pc = "done"
    /\ call.fn \in {"upload_file", "sftp_remove_path_recursive"}
    /\ main' = IF call.fn = "upload_file"
                THEN IF call.ret = 0 THEN Said(1, "Upload succeeded")
                     ELSE IF up.err_msg # "NULL" THEN Said(0, up.err_msg)
                     ELSE Said(0, "Upload failed")
                ELSE IF call.ret = 0 THEN Said(1, "Remove succeeded")
                     ELSE IF call.err_msg # "NULL" THEN Said(0, call.err_msg)
                     ELSE Said(0, "Remove failed")
    /\ pc' = "main_probe"
    /\ UNCHANGED <<remote, cwd, ops, call, mk, up, rm, handles, sess>>

\* CloseShutdown with the shutdown of the SFTP session after the disconnect.
CloseShutdown_Late ==
    /\ pc = "close_shutdown"
    /\ sess' = [sess EXCEPT !.log = @ \o <<Called("close_sftp_session", "called"),
                                          Called("libssh2_session_disconnect", "void"),
                                          Called("libssh2_sftp_shutdown", "void")>>,
                            !.session = "disconnected", !.sftp_session = "shutdown"]
    /\ pc' = "close_free"
    /\ UNCHANGED <<remote, cwd, ops, call, mk, up, rm, handles, main>>

\* src/main.c 121, src/transmit.c 95: close_sftp_session is entered and
\* libssh2_sftp_shutdown called
CloseShutdown ==
    /\ pc = "close_shutdown"
    /\ sess' = [sess EXCEPT !.log = @ \o <<Called("close_sftp_session", "called"),
                                          Called("libssh2_sftp_shutdown", "void")>>,
                            !.sftp_session = "shutdown"]
    /\ pc' = "close_disconnect"
    /\ UNCHANGED <<remote, cwd, ops, call, mk, up, rm, handles, main>>

\* 96: libssh2_session_disconnect(session, "Normal Shutdown")
CloseDisconnect ==
    /\ pc = "close_disconnect"
    /\ sess' = [Log("libssh2_session_disconnect", "void") EXCEPT !.session = "disconnected"]
    /\ pc' = "close_free"
    /\ UNCHANGED <<remote, cwd, ops, call, mk, up, rm, handles, main>>

\* 97: libssh2_session_free
CloseFree ==
    /\ pc = "close_free"
    /\ sess' = [Log("libssh2_session_free", "void") EXCEPT !.session = "freed"]
    /\ pc' = "close_sock"
    /\ UNCHANGED <<remote, cwd, ops, call, mk, up, rm, handles, main>>

\* 98-99: close(sock) and libssh2_exit
CloseSock ==
    /\ pc = "close_sock"
    /\ sess' = [sess EXCEPT !.log = @ \o <<Called("close", "void"), Called("libssh2_exit", "void")>>,
                            !.sock = "closed",
                            !.transport = "closed"]
    /\ pc' = "main_closed"
    /\ UNCHANGED <<remote, cwd, ops, call, mk, up, rm, handles, main>>

CloseStep == CloseShutdown \/ CloseDisconnect \/ CloseFree \/ CloseSock

\* src/main.c 122-123
MainExit ==
    /\ pc = "main_closed"
    /\ main' = [Said(1, "Session closed") EXCEPT !.ret = 0]
    /\ pc' = "exit"
    /\ UNCHANGED <<remote, cwd, ops, call, mk, up, rm, handles, sess>>

MainStep ==
    \/ MainPrompt \/ MainConnected \/ MainProbe
    \/ MainReadEof \/ MainReadExit \/ MainReadUpload \/ MainReadRemove
    \/ MainReadUnknown \/ MainResult \/ MainExit

InitMain ==
    /\ remote \in MainRemotes
    /\ cwd = Root
    /\ ops = <<>>
    /\ pc = "main_start"
    /\ call = NewCall("main", 0, 0, FALSE)
    /\ mk = mkIdle
    /\ up = upIdle
    /\ rm = rmIdle
    /\ handles = noHandles
    /\ sess = sessIdle
    /\ main = mainIdle

NextMain ==
    \/ MainStep \/ InitStep \/ init_sftp_session_password
    \/ CloseStep \/ TransportClosed
    \/ UpStep \/ MkStep \/ RmStep

SpecMain == InitMain /\ [][NextMain]_vars

(***************************************************************************)
(* Claims about create_remote_directory_recursively.                       *)
(***************************************************************************)
\* The addresses of path s and of its prefixes at component boundaries, from
\* the directory the server resolves s against down to s itself.
PathAddrs(s) ==
    LET base == IF IsAbsolute(s) THEN Root ELSE cwd
        parts == DropDots(strtok(s))
    IN  {base \o SubSeq(parts, 1, k) : k \in 0..Len(parts)}

DirDone == pc = "done" /\ call.fn = "create_directory"

Mkdirs == {i \in 1..Len(ops) : ops[i].op = "mkdir"}

\* C1: when create_remote_directory_recursively(P) returns 0, P and every
\* ancestor prefix of P are directories on the remote side, and every path
\* the call stat'ed or created is a component-boundary prefix of P, for
\* relative and for absolute P.
C1_AllPrefixesExist ==
    (DirDone /\ call.ret = 0) =>
        /\ \A a \in PathAddrs(mk.path) : Kind(a) = "dir"
        /\ \A i \in 1..Len(ops) : Resolve(ops[i].path) \in PathAddrs(mk.path)

\* C2: when a first create_directory(P) succeeded, the call that follows it
\* succeeds, issues no mkdir and leaves the remote tree as the first left it.
C2_SecondCallNoOp ==
    (DirDone /\ call.no >= 2 /\ call.prevRet = 0) =>
        /\ call.ret = 0
        /\ Mkdirs = {}
        /\ remote = call.remote0

\* C3: when a prefix of P (P included) is a non-directory on the remote side,
\* the call fails, issues no mkdir for that prefix or a longer one, and the
\* entry is left as it was.
C3_ConflictFails ==
    \A a \in PathAddrs(mk.path) :
        (DirDone /\ KindIn(call.remote0, a) = "file") =>
            /\ call.ret = 1
            /\ \A i \in Mkdirs : ~IsPrefix(a, Resolve(ops[i].path))
            /\ a \in DOMAIN remote /\ remote[a] = call.remote0[a]

(***************************************************************************)
(* Claims about upload_file.                                               *)
(***************************************************************************)
UpDone == pc = "done" /\ call.fn = "upload_file"

RemoteFile == Resolve(up.remote_file)

Writes == {i \in 1..Len(ops) : ops[i].op = "write"}

\* C4: when upload_file returns 0 the remote file holds the bytes of the local
\* file, for the local sizes 0, one chunk and one chunk plus one byte, every
\* pattern of short writes and every content the remote file held before.
C4_UploadedContent ==
    (UpDone /\ call.ret = 0) =>
        /\ Kind(RemoteFile) = "file"
        /\ remote[RemoteFile].data = up.local_file.data

\* C5: when the local path is a directory, upload_file fails with an error
\* message and issues no remote operation: the remote tree is unchanged.
C5_LocalDirectoryRefused ==
    (UpDone /\ up.local_file.kind = "dir") =>
        /\ call.ret # 0
        /\ up.err_msg # "NULL"
        /\ ops = <<>>
        /\ remote = call.remote0

\* C5 witness: upload_file has returned for a local directory and a remote
\* path whose parent directory does not exist.
C5_Witness ==
    /\ UpDone /\ up.local_file.kind = "dir"
    /\ Kind(Resolve(dirname(up.remote_file))) = "none"

\* C6: after an error of the local read, of the remote open or of the remote
\* write, upload_file returns failure with an error message and with both
\* handles released; it never returns success.
C6_ErrorsAbort ==
    (UpDone /\ (up.readErr \/ up.openErr \/ up.writeErr)) =>
        /\ call.ret # 0
        /\ up.err_msg # "NULL"
        /\ up.sftp_handle # "open"
        /\ up.local # "open"

(***************************************************************************)
(* Claims about sftp_remove_path_recursive.                                *)
(***************************************************************************)
RmDone == pc = "done" /\ call.fn = "sftp_remove_path_recursive"
RmRunning == call.fn = "sftp_remove_path_recursive"

\* The address of the path given to the outermost call, and what the path
\* named, with all below it, when the call began and what it names now.
RmRoot == Resolve(call.path)
RmTree0 == NamedIn(call.remote0, cwd, call.path)
RmTree == NamedIn(remote, cwd, call.path)

\* C7: when sftp_remove_path_recursive(root) returns 0, root and every
\* descendant of root are absent, whatever the single remote operations
\* answered, a readdir failing part-way included.
C7_SuccessMeansGone ==
    (RmDone /\ call.ret = 0) => RmTree = {}

\* C7 witness: a call has returned 0 on a tree that held a directory with an
\* entry below root, root included at least three entries, and a readdir of
\* the call failed.
C7_Witness ==
    /\ RmDone /\ call.ret = 0
    /\ Cardinality(RmTree0) >= 3
    /\ \E q \in RmTree0 : Len(q) >= Len(RmRoot) + 2
    /\ \E i \in 1..Len(ops) : ops[i].op = "readdir" /\ ops[i].res = "error"

\* C8: when the stat of P reports that P does not exist, the call returns 0
\* and issues no other remote operation, the tree being unchanged; and the
\* stat of a call that follows a successful remove(P) reports just that.
C8_AbsentIsNoOp ==
    RmDone =>
        /\ ops[1].res = "nosuchfile" =>
               (call.ret = 0 /\ Len(ops) = 1 /\ remote = call.remote0)
        /\ (call.no >= 2 /\ call.prevRet = 0) => ops[1].res = "nosuchfile"

\* C8 witness: a second call has returned after a first call that removed
\* entries and succeeded.
C8_Witness ==
    /\ RmDone /\ call.no = 2 /\ call.prevRet = 0 /\ call.prevChanged
    /\ ops[1].res = "nosuchfile"

\* C9: from the first failed removal of a directory entry (the unlink of a
\* child fails, or the call on a child directory fails) on, no unlink and no
\* rmdir is issued and the tree stays as it was, so the entries not yet
\* processed and the directories above the entry are still there; and the
\* outermost call returns failure.
C9_FailFast ==
    (RmRunning /\ call.failed) =>
        /\ remote = call.failRemote
        /\ \A i \in (call.failOps + 1)..Len(ops) : ops[i].op \notin {"unlink", "rmdir"}
        /\ \A a \in DOMAIN call.failRemote :
               (IsPrefix(a, Resolve(call.failPath)) /\ a # Resolve(call.failPath))
                   => Kind(a) = "dir"
        /\ RmDone => call.ret = -1

\* C9 witness: a call has returned after the removal of an entry two levels
\* below root failed, with another entry of root, not yet processed, still
\* there.
C9_Witness ==
    /\ RmDone /\ call.failed /\ call.no = 1
    /\ Len(Resolve(call.failPath)) >= Len(RmRoot) + 2
    /\ \E q \in Children(remote, RmRoot) : ~IsPrefix(q, Resolve(call.failPath))

\* C10: after a call that failed, the next call on the tree it left, in which
\* the server refuses nothing, returns 0 and leaves root and its descendants
\* absent.
C10_RetrySucceeds ==
    (RmDone /\ call.no >= 2 /\ call.prevRet = -1) =>
        /\ call.ret = 0
        /\ RmTree = {}

(***************************************************************************)
(* Claims about main, init_sftp_session and close_sftp_session.            *)
(***************************************************************************)
\* The calls close_sftp_session consists of, in the order of the source.
CloseCalls ==
    <<Called("close_sftp_session", "called"), Called("libssh2_sftp_shutdown", "void"),
      Called("libssh2_session_disconnect", "void"), Called("libssh2_session_free", "void"),
      Called("close", "void"), Called("libssh2_exit", "void")>>

LogAt(fn) == {i \in 1..Len(sess.log) : sess.log[i].fn = fn}
LogAfter(i) == SubSeq(sess.log, i + 1, Len(sess.log))
Commands == LogAt("upload_file") \cup LogAt("sftp_remove_path_recursive")
Connected == \E j \in 1..Len(main.out) : main.out[j] = [status |-> 1, message |-> "Connected"]
Closing == pc \in {"close_disconnect", "close_free", "close_sock", "main_closed", "exit"}

\* C13: after a successful connect, however the loop ends, close_sftp_session
\* is called once; after it no upload, remove or probe is issued; and its
\* steps are the shutdown of the SFTP session, the disconnect of the session
\* and the release of the descriptor, in this order, each once.
C13_CloseOnceInOrder ==
    /\ Cardinality(LogAt("close_sftp_session")) <= 1
    /\ \A i \in LogAt("close_sftp_session") :
          /\ IsPrefix(SubSeq(sess.log, i, Len(sess.log)), CloseCalls)
          /\ Closing
    /\ (pc = "exit" /\ Connected) =>
          \E i \in LogAt("close_sftp_session") :
             SubSeq(sess.log, i, Len(sess.log)) = CloseCalls

\* C13 witness: main has ended after an upload and a lost session, the
\* session closed.
C13_Witness ==
    /\ pc = "exit" /\ Connected
    /\ LogAt("upload_file") # {}
    /\ \E j \in 1..Len(main.out) : main.out[j].message = "SFTP session lost"
    /\ sess.sock = "closed"

\* C15: when init_sftp_session fails after the descriptor was created, the
\* descriptor is closed and the session object freed when main ends.
C15_FailedConnectReleases ==
    (pc = "exit" /\ main.auth = "key" /\ main.rc # 0) =>
        /\ sess.sock \in {"none", "closed"}
        /\ sess.session \in {"NULL", "freed"}

\* C16: the probe precedes every command; once it has returned false there
\* is no further upload or remove and no call of a connect function, one
\* failure line is printed and the loop is left.
C16_LostSessionIsFatal ==
    /\ \A i \in Commands :
          i > 1 /\ sess.log[i - 1] = Called("is_sftp_session_alive", "true")
    /\ pc = "main_read" =>
          sess.log[Len(sess.log)] = Called("is_sftp_session_alive", "true")
    /\ \A i \in LogAt("is_sftp_session_alive") :
          sess.log[i].ret = "false" =>
             /\ IsPrefix(LogAfter(i), CloseCalls)
             /\ Closing \/ pc = "close_shutdown"
             /\ \E j \in 1..Len(main.out) :
                   /\ main.out[j] = [status |-> 0, message |-> "SFTP session lost"]
                   /\ IsPrefix(SubSeq(main.out, j + 1, Len(main.out)),
                               <<[status |-> 1, message |-> "Session closed"]>>)

\* C16 witness: the probe has returned false after a remove, and main has
\* ended.
C16_Witness ==
    /\ pc = "exit"
    /\ LogAt("sftp_remove_path_recursive") # {}
    /\ \E i \in LogAt("is_sftp_session_alive") : sess.log[i].ret = "false"

(***************************************************************************)
(* Claims about is_session_alive.                                          *)
(***************************************************************************)
AliveDone == pc = "done" /\ call.fn = "is_session_alive"

\* The transport is closed: the peer has closed the connection, or the
\* descriptor is no longer valid.
TransportIsClosed == sess.transport \in {"closed", "reset"} \/ sess.sock = "closed"

\* C11: once the transport is closed is_session_alive returns false,
\* whichever direction the session reports, with or without a protocol call
\* made before.
C11_ClosedIsDead ==
    (AliveDone /\ TransportIsClosed) => call.ret = 0

\* C12: for a transport that is not closed is_session_alive returns true,
\* whichever direction the session reports and whether or not the socket has
\* bytes pending or room to write: an open, idle connection is never
\* reported dead.
C12_OpenIsAlive ==
    (AliveDone /\ ~TransportIsClosed) => call.ret = 1

\* C18: upload_file returns in the end, for every local file and whatever
\* the writes do: fail, or accept any number of the remaining bytes, none
\* included.
C18_UploadReturns == <>(pc = "done")

(***************************************************************************)
(* Claims about the handles, the order of the removal, the failed upload   *)
(* and the frame of the removal.                                           *)
(***************************************************************************)
OpendirsOk == {i \in 1..Len(ops) : ops[i].op = "opendir" /\ ops[i].res = "ok"}

\* C14: in upload_file and sftp_remove_path_recursive every handle that was
\* opened is closed once before the call returns, at every depth of the
\* recursion, and no handle is used or closed while it is not open.
C14_HandlesClosed ==
    /\ ~handles.misuse
    /\ pc = "done" => handles.open = {}
    /\ pc = "rm_ret" => \A h \in handles.open : h.depth < Len(rm)

\* C14 witness: a remove has failed below two open listings and has returned.
C14_Witness ==
    /\ RmDone /\ call.ret = -1 /\ call.failed
    /\ Cardinality(OpendirsOk) >= 2
    /\ handles.open = {}

\* C17: rmdir is issued on a directory only when none of its entries is
\* left and its listing handle is closed.
C17_RmdirAfterChildren ==
    (RmRunning /\ pc \in {"rm_rmdir", "rm_rmdir_unlisted"}) =>
        /\ Children(remote, Resolve(Top.path)) = {}
        /\ hDir(Len(rm)) \notin handles.open

Dirs(r) == {p \in DOMAIN r : r[p].kind = "dir"}

\* C19: upload_file issues no unlink and no rmdir; when it fails after the
\* remote file was opened, the remote file holds the bytes of the local file
\* written before the failure, none when the local file could not be opened;
\* the directories it made, and those that were there, remain.
C19_NoRollback ==
    call.fn = "upload_file" =>
        /\ \A i \in 1..Len(ops) : ops[i].op \notin {"unlink", "rmdir"}
        /\ (UpDone /\ call.ret # 0 /\ up.sftp_handle # "NULL") =>
              /\ Kind(RemoteFile) = "file"
              /\ remote[RemoteFile].data = SubSeq(up.local_file.data, 1, up.woff)
              /\ up.local = "NULL" => remote[RemoteFile].data = <<>>
        /\ UpDone =>
              /\ Dirs(call.remote0) \subseteq Dirs(remote)
              /\ \A i \in Mkdirs :
                    (i < Len(ops) \/ mk.ret = 0) => Kind(Resolve(ops[i].path)) = "dir"

\* C19 witness: an upload has failed in a write after a directory was made
\* and a byte written, over a remote file that held more.
C19_Witness ==
    /\ UpDone /\ call.ret # 0 /\ up.writeErr /\ up.woff > 0
    /\ up.woff < Len(up.local_file.data)
    /\ Mkdirs # {}

\* The strings "/name/name..." by which a path below P continues P.
RECURSIVE BelowNames(_)
BelowNames(s) ==
    \/ s = <<>>
    \/ /\ Len(s) >= 2 /\ s[1] = "/" /\ s[2] \in Names
       /\ BelowNames(SubSeq(s, 3, Len(s)))

\* C20: every unlink and rmdir of sftp_remove_path_recursive(P) is aimed at
\* P or at a path P/name/... with no name "." or ".."; whether the call
\* succeeds or fails, every entry outside the tree of P is as it was.
C20_RemoveFrame ==
    RmRunning =>
        /\ \A i \in 1..Len(ops) :
              ops[i].op \in {"unlink", "rmdir"} =>
                 /\ IsPrefix(call.path, ops[i].path)
                 /\ BelowNames(SubSeq(ops[i].path, Len(call.path) + 1, Len(ops[i].path)))
        /\ DOMAIN remote \subseteq DOMAIN call.remote0
        /\ \A p \in DOMAIN call.remote0 :
              ~IsPrefix(RmRoot, p) => (p \in DOMAIN remote /\ remote[p] = call.remote0[p])

\* C20 witness: a remove has failed after it removed an entry, an entry
\* beside the path being there.
C20_Witness ==
    /\ RmDone /\ call.ret = -1 /\ remote # call.remote0
    /\ \E p \in DOMAIN remote : Len(p) >= 1 /\ ~IsPrefix(RmRoot, p) /\ ~IsPrefix(p, RmRoot)

====
